---- MODULE Spec2Model ----
(***************************************************************************)
(* Model of package tracer: the span wrapper of span.go (New, the typed    *)
(* attribute setters, Parse, Extract, End, OK, SError, Error) and the      *)
(* process-wide hook registry (SetErrorFunc, SetPanicFunc behind one       *)
(* sync.Once).                                                             *)
(*                                                                         *)
(* The underlying trace.Span is an interface value owned by the tracing    *)
(* SDK.  It is modelled by what the wrapper asks of it: the attributes     *)
(* passed to SetAttributes (a later value for a key overwrites an earlier  *)
(* one), the last status passed to SetStatus, the errors passed to         *)
(* RecordError and the number of End calls.                                *)
(***************************************************************************)
EXTENDS Integers, Sequences, FiniteSets, TLC

\* ------------------------------------------------------------- bounds
\* Calls made on the hook registry in the sequential specification.
MaxCalls == 3
\* Goroutines racing on the hook registry in the concurrent specification.
NumCallers == 3
\* Typed setter calls on one accumulator in SpecSetters.
MaxSets == 3
\* Operations on the accumulator (setters and Extract) in SpecAttrs.
MaxAttrOps == 4
\* Operations on one span, New included, in Spec.
MaxOps == 4

\* ------------------------------------------------------------- values
\* The nil func value and the func values callers pass to the setters.
NilFn == "nil"
Fns == {"f1", "f2"}
FnArgs == Fns \cup {NilFn}

Callers == 1..NumCallers

VARIABLES
  \* hook registry
  cfg,        \* config{errorFunc, panicFunc}
  done,       \* once: the done flag of the sync.Once (0 or 1)
  mu,         \* once: the holder of the sync.Once mutex, 0 when free
  pc,         \* concurrent callers: position of each inside once.Do
  call,       \* concurrent callers: <<setter, fn>> of the call in progress
  ran,        \* callers whose closure was executed by once.Do
  callLog,    \* sequential calls made so far, oldest first
  \* span wrapper
  live,       \* a Span has been returned by New
  kind,       \* trace.SpanKind the span was started with
  Attrs,      \* Span.Attrs, the accumulator
  sdkAttrs,   \* attributes set on the underlying span, by key
  statusCode, \* codes.Code last passed to SetStatus
  statusDesc, \* description last passed to SetStatus
  recorded,   \* errors passed to RecordError, oldest first
  endCount,   \* number of Span.End calls on the underlying span
  panic,      \* the panic value being unwound, <<>> when none
  lastOp,     \* the wrapper operation that ran last
  prevOp,     \* the wrapper operation that ran before it
  lastArg,    \* its argument
  lastCalls,  \* the calls it made on the underlying span, in order
  setLog,     \* typed setter calls made on the accumulator, oldest first
  nops        \* operations performed

hookVars == <<cfg, done, mu, pc, call, ran, callLog>>
spanVars == <<live, kind, Attrs, sdkAttrs, statusCode, statusDesc, recorded,
              endCount, panic, lastOp, prevOp, lastArg, lastCalls, setLog, nops>>
vars == <<cfg, done, mu, pc, call, ran, callLog,
          live, kind, Attrs, sdkAttrs, statusCode, statusDesc, recorded,
          endCount, panic, lastOp, prevOp, lastArg, lastCalls, setLog, nops>>

\* ------------------------------------------------------- hook registry
\* var cfg config: both hooks nil.
EmptyCfg == [errorFunc |-> NilFn, panicFunc |-> NilFn]

\* The closure each setter hands to once.Do, as the config it leaves.
ErrorFuncClosure(c, fn) == [c EXCEPT !.errorFunc = fn]
PanicFuncClosure(c, fn) == [c EXCEPT !.panicFunc = fn]

Closure(c, setter, fn) ==
  IF setter = "SetErrorFunc" THEN ErrorFuncClosure(c, fn)
  ELSE PanicFuncClosure(c, fn)

\* A Once that runs its function on every call.
OnceDoAlways(setter, fn) ==
  /\ cfg' = Closure(cfg, setter, fn)
  /\ done' = 1

\* once.Do(f) run to completion by a single caller: f runs iff done is 0,
\* and done is 1 when Do returns.
OnceDo(setter, fn) ==
  IF done = 0
  THEN /\ cfg' = Closure(cfg, setter, fn)
       /\ done' = 1
  ELSE UNCHANGED <<cfg, done>>

SetErrorFunc(fn) ==
  /\ OnceDo("SetErrorFunc", fn)
  /\ callLog' = Append(callLog, <<"SetErrorFunc", fn>>)
  /\ UNCHANGED <<mu, pc, call, ran>>
  /\ UNCHANGED spanVars

SetPanicFunc(fn) ==
  /\ OnceDo("SetPanicFunc", fn)
  /\ callLog' = Append(callLog, <<"SetPanicFunc", fn>>)
  /\ UNCHANGED <<mu, pc, call, ran>>
  /\ UNCHANGED spanVars

\* ---- the same calls made by concurrent goroutines, one step at a time.
\* A goroutine enters SetErrorFunc or SetPanicFunc.
Enter(g, setter, fn) ==
  /\ pc[g] = "idle"
  /\ pc' = [pc EXCEPT ![g] = "fast"]
  /\ call' = [call EXCEPT ![g] = <<setter, fn>>]
  /\ UNCHANGED <<cfg, done, mu, ran, callLog>>
  /\ UNCHANGED spanVars

\* Once.Do: if o.done.Load() == 0 { o.doSlow(f) }
FastCheck(g) ==
  /\ pc[g] = "fast"
  /\ pc' = [pc EXCEPT ![g] = IF done = 0 THEN "lock" ELSE "ret"]
  /\ UNCHANGED <<cfg, done, mu, call, ran, callLog>>
  /\ UNCHANGED spanVars

\* doSlow: o.m.Lock()
Lock(g) ==
  /\ pc[g] = "lock"
  /\ mu = 0
  /\ mu' = g
  /\ pc' = [pc EXCEPT ![g] = "slow"]
  /\ UNCHANGED <<cfg, done, call, ran, callLog>>
  /\ UNCHANGED spanVars

\* A doSlow that does not look at done again once it holds the mutex.
SlowCheckNoRecheck(g) ==
  /\ pc[g] = "slow"
  /\ pc' = [pc EXCEPT ![g] = "run"]
  /\ UNCHANGED <<cfg, done, mu, call, ran, callLog>>
  /\ UNCHANGED spanVars

\* doSlow: if o.done.Load() == 0 { defer o.done.Store(1); f() }
SlowCheck(g) ==
  /\ pc[g] = "slow"
  /\ pc' = [pc EXCEPT ![g] = IF done = 0 THEN "run" ELSE "unlock"]
  /\ UNCHANGED <<cfg, done, mu, call, ran, callLog>>
  /\ UNCHANGED spanVars

\* f(): the closure's assignment to cfg.
RunClosure(g) ==
  /\ pc[g] = "run"
  /\ cfg' = Closure(cfg, call[g][1], call[g][2])
  /\ ran' = ran \cup {g}
  /\ pc' = [pc EXCEPT ![g] = "store"]
  /\ UNCHANGED <<done, mu, call, callLog>>
  /\ UNCHANGED spanVars

\* deferred o.done.Store(1)
StoreDone(g) ==
  /\ pc[g] = "store"
  /\ done' = 1
  /\ pc' = [pc EXCEPT ![g] = "unlock"]
  /\ UNCHANGED <<cfg, mu, call, ran, callLog>>
  /\ UNCHANGED spanVars

\* deferred o.m.Unlock(), then Do and the setter return.
Unlock(g) ==
  /\ pc[g] = "unlock"
  /\ mu = g
  /\ mu' = 0
  /\ pc' = [pc EXCEPT ![g] = "ret"]
  /\ UNCHANGED <<cfg, done, call, ran, callLog>>
  /\ UNCHANGED spanVars

\* ---------------------------------------------------------- span wrapper
\* trace.SpanKind values and codes.Code values, by name.
SpanKindInternal == "SpanKindInternal"
SpanKindServer == "SpanKindServer"
SpanKindClient == "SpanKindClient"
SpanKindProducer == "SpanKindProducer"
SpanKindConsumer == "SpanKindConsumer"
NoKind == "none"

CodeUnset == "Unset"
CodeOk == "Ok"
CodeError == "Error"

kindMap ==
  [k \in {"internal", "server", "client", "producer", "consumer"} |->
     CASE k = "internal" -> SpanKindInternal
       [] k = "server" -> SpanKindServer
       [] k = "client" -> SpanKindClient
       [] k = "producer" -> SpanKindProducer
       [] k = "consumer" -> SpanKindConsumer]

\* Inputs: the Kind of a startOptions value ("" when only TracerName is
\* given), attribute keys and values, errors (<<>> is the nil error, <<m>>
\* an error whose Error() is m) and panic values (<<tag, value>>).
KindStrings == {"internal", "server", "client", "producer", "consumer",
                "", "Server"}
Keys == {"route", "status"}
StrVals == {"/x", "/y"}
BoolVals == {TRUE, FALSE}
IntVals == {200, 500}
FloatVals == {15, 25}
SliceVals == {<<>>, <<"a", "b">>}
NilErr == <<>>
Errs == {<<"e1">>}
Msgs == {"", "bad"}
Payloads == {<<"string", "boom">>, <<"int", 42>>, <<"error", "e1">>}

\* spanAttributes{}: the five maps are nil.
EmptyAttrs == [Str |-> <<>>, Bool |-> <<>>, Slice |-> <<>>, Int |-> <<>>,
               Float |-> <<>>]

\* m[k] = v on a Go map (allocated by the setter when nil).
MapSet(m, k, v) ==
  [x \in (DOMAIN m) \cup {k} |-> IF x = k THEN v ELSE m[x]]

\* if a.F == nil { a.F = map{} }; a.F[k] = v
Setter(a, field, k, v) ==
  [a EXCEPT ![field] = MapSet(@, k, v)]

\* The orders in which `range` may visit the keys of a map.
RECURSIVE Orders(_)
Orders(S) ==
  IF S = {} THEN {<<>>}
  ELSE UNION {{<<k>> \o rest : rest \in Orders(S \ {k})} : k \in S}

\* for k, v := range m { out = append(out, attribute.T(k, v)) }
RangeAppend(type, m) ==
  {[i \in 1..Len(o) |-> <<type, o[i], m[o[i]]>>] : o \in Orders(DOMAIN m)}

\* A Parse that ranges over the five maps in no fixed order of kinds.
ParseAnyOrder(a) ==
  LET all == UNION {
        {<<"STRING", k, a.Str[k]>> : k \in DOMAIN a.Str},
        {<<"BOOL", k, a.Bool[k]>> : k \in DOMAIN a.Bool},
        {<<"INT64", k, a.Int[k]>> : k \in DOMAIN a.Int},
        {<<"FLOAT64", k, a.Float[k]>> : k \in DOMAIN a.Float},
        {<<"STRINGSLICE", k, a.Slice[k]>> : k \in DOMAIN a.Slice}}
  IN {[i \in 1..Len(o) |-> o[i]] : o \in Orders(all)}

\* A Parse that leaves out the Int map.
ParseNoInt(a) ==
  {s \o b \o f \o l :
     s \in RangeAppend("STRING", a.Str), b \in RangeAppend("BOOL", a.Bool),
     f \in RangeAppend("FLOAT64", a.Float),
     l \in RangeAppend("STRINGSLICE", a.Slice)}

\* spanAttributes.Parse: every slice the call may return (Str, Bool, Int,
\* Float, Slice in that order; the keys of one map in any order).
Parse(a) ==
  {s \o b \o i \o f \o l :
     s \in RangeAppend("STRING", a.Str), b \in RangeAppend("BOOL", a.Bool),
     i \in RangeAppend("INT64", a.Int), f \in RangeAppend("FLOAT64", a.Float),
     l \in RangeAppend("STRINGSLICE", a.Slice)}

\* Decimal digits of a non-negative int, as %v prints it.
Digit(d) ==
  CASE d = 0 -> "0" [] d = 1 -> "1" [] d = 2 -> "2" [] d = 3 -> "3"
    [] d = 4 -> "4" [] d = 5 -> "5" [] d = 6 -> "6" [] d = 7 -> "7"
    [] d = 8 -> "8" [] d = 9 -> "9"

RECURSIVE Itoa(_)
Itoa(n) == IF n < 10 THEN Digit(n) ELSE Itoa(n \div 10) \o Digit(n % 10)

\* %v of a panic value.
FormatV(r) == IF r[1] = "int" THEN Itoa(r[2]) ELSE r[2]

\* fmt.Errorf("recovered from panic: %v", r)
Errorf(r) == <<"recovered from panic: " \o FormatV(r)>>

\* ---- calls on the underlying span, <<method, arguments>>.
CallSetAttributes(kv) == <<"SetAttributes", kv>>
CallSetStatus(code, desc) == <<"SetStatus", <<code, desc>>>>
CallRecordError(err, stack) == <<"RecordError", <<err[1], stack>>>>
CallEnd == <<"End", <<>>>>

\* SetAttributes(kv...): each pair overwrites the attribute of its key.
RECURSIVE SetAttributes(_, _)
SetAttributes(cur, kv) ==
  IF kv = <<>> THEN cur
  ELSE SetAttributes(MapSet(cur, kv[1][2], <<kv[1][1], kv[1][3]>>), Tail(kv))

\* The underlying span after one call.
ApplyCall(s, c) ==
  CASE c[1] = "SetAttributes" ->
         [s EXCEPT !.attrs = SetAttributes(@, c[2])]
    [] c[1] = "SetStatus" ->
         [s EXCEPT !.code = c[2][1], !.desc = c[2][2]]
    [] c[1] = "RecordError" ->
         [s EXCEPT !.recorded = Append(@, [msg |-> c[2][1], stack |-> c[2][2]])]
    [] c[1] = "End" ->
         [s EXCEPT !.ended = @ + 1]

RECURSIVE ApplyCalls(_, _)
ApplyCalls(s, cs) ==
  IF cs = <<>> THEN s ELSE ApplyCalls(ApplyCall(s, Head(cs)), Tail(cs))

\* A wrapper operation op(arg) that makes the calls cs on s.Span.
Calls(op, arg, cs) ==
  LET s == ApplyCalls([attrs |-> sdkAttrs, code |-> statusCode,
                       desc |-> statusDesc, recorded |-> recorded,
                       ended |-> endCount], cs)
  IN /\ sdkAttrs' = s.attrs
     /\ statusCode' = s.code
     /\ statusDesc' = s.desc
     /\ recorded' = s.recorded
     /\ endCount' = s.ended
     /\ lastOp' = op
     /\ prevOp' = lastOp
     /\ lastArg' = arg
     /\ lastCalls' = cs
     /\ nops' = nops + 1

\* A New that indexes kindMap without the ok test: a missing key gives the
\* zero SpanKind.
NewKindNoFallback(tracerArgs) ==
  IF Len(tracerArgs) > 0
  THEN IF tracerArgs[1].Kind \in DOMAIN kindMap
       THEN kindMap[tracerArgs[1].Kind] ELSE "SpanKindUnspecified"
  ELSE SpanKindInternal

\* New: the kind the span is started with.
NewKind(tracerArgs) ==
  IF Len(tracerArgs) > 0 /\ tracerArgs[1].Kind \in DOMAIN kindMap
  THEN kindMap[tracerArgs[1].Kind]
  ELSE SpanKindInternal

\* New(ctx, spanName, tracerArgs...)
New(tracerArgs) ==
  /\ ~live
  /\ live' = TRUE
  /\ kind' = NewKind(tracerArgs)
  /\ Attrs' = EmptyAttrs
  /\ Calls("New", tracerArgs, <<>>)
  /\ UNCHANGED <<panic, setLog>>
  /\ UNCHANGED hookVars

\* The typed setters: each upserts into the map of its kind.
StrKV(k, v) ==
  /\ live /\ panic = <<>>
  /\ Attrs' = Setter(Attrs, "Str", k, v)
  /\ setLog' = Append(setLog, <<"StrKV", k, v>>)
  /\ Calls("StrKV", <<k, v>>, <<>>)
  /\ UNCHANGED <<live, kind, panic>>
  /\ UNCHANGED hookVars

BoolKV(k, v) ==
  /\ live /\ panic = <<>>
  /\ Attrs' = Setter(Attrs, "Bool", k, v)
  /\ setLog' = Append(setLog, <<"BoolKV", k, v>>)
  /\ Calls("BoolKV", <<k, v>>, <<>>)
  /\ UNCHANGED <<live, kind, panic>>
  /\ UNCHANGED hookVars

IntKV(k, v) ==
  /\ live /\ panic = <<>>
  /\ Attrs' = Setter(Attrs, "Int", k, v)
  /\ setLog' = Append(setLog, <<"IntKV", k, v>>)
  /\ Calls("IntKV", <<k, v>>, <<>>)
  /\ UNCHANGED <<live, kind, panic>>
  /\ UNCHANGED hookVars

FloatKV(k, v) ==
  /\ live /\ panic = <<>>
  /\ Attrs' = Setter(Attrs, "Float", k, v)
  /\ setLog' = Append(setLog, <<"FloatKV", k, v>>)
  /\ Calls("FloatKV", <<k, v>>, <<>>)
  /\ UNCHANGED <<live, kind, panic>>
  /\ UNCHANGED hookVars

SliceKV(k, v) ==
  /\ live /\ panic = <<>>
  /\ Attrs' = Setter(Attrs, "Slice", k, v)
  /\ setLog' = Append(setLog, <<"SliceKV", k, v>>)
  /\ Calls("SliceKV", <<k, v>>, <<>>)
  /\ UNCHANGED <<live, kind, panic>>
  /\ UNCHANGED hookVars

\* Span.Extract: s.Span.SetAttributes(s.Attrs.Parse()...)
ExtractCalls(out) == <<CallSetAttributes(out)>>

Extract ==
  /\ live /\ panic = <<>>
  /\ \E out \in Parse(Attrs) : Calls("Extract", <<>>, ExtractCalls(out))
  /\ UNCHANGED <<live, kind, Attrs, panic, setLog>>
  /\ UNCHANGED hookVars

\* Span.OK(msg...)
OKCalls(msg) == <<CallSetStatus(CodeOk, IF Len(msg) > 0 THEN msg[1] ELSE "")>>

OK(msg) ==
  /\ live /\ panic = <<>>
  /\ Calls("OK", msg, OKCalls(msg))
  /\ UNCHANGED <<live, kind, Attrs, panic, setLog>>
  /\ UNCHANGED hookVars

\* An SError without the empty-message test.
SErrorCallsNoGuard(msg) == <<CallSetStatus(CodeError, msg)>>

\* Span.SError(msg)
SErrorCalls(msg) ==
  IF msg = "" THEN <<>> ELSE <<CallSetStatus(CodeError, msg)>>

SError(msg) ==
  /\ live /\ panic = <<>>
  /\ Calls("SError", msg, SErrorCalls(msg))
  /\ UNCHANGED <<live, kind, Attrs, panic, setLog>>
  /\ UNCHANGED hookVars

\* An Error that records whenever the flag is passed, whatever its value.
ErrorCallsAnyFlag(err, recordError) ==
  IF err # NilErr
  THEN (IF Len(recordError) > 0
        THEN <<CallRecordError(err, FALSE)>> ELSE <<>>)
       \o <<CallSetStatus(CodeError, err[1])>>
  ELSE <<>>

\* Span.Error(err, recordError...)
ErrorCalls(err, recordError) ==
  IF err # NilErr
  THEN (IF Len(recordError) > 0 /\ recordError[1]
        THEN <<CallRecordError(err, FALSE)>> ELSE <<>>)
       \o <<CallSetStatus(CodeError, err[1])>>
  ELSE <<>>

Error(err, recordError) ==
  /\ live /\ panic = <<>>
  /\ Calls("Error", <<err, recordError>>, ErrorCalls(err, recordError))
  /\ UNCHANGED <<live, kind, Attrs, panic, setLog>>
  /\ UNCHANGED hookVars

\* The function that deferred s.End() panics with value p: End runs next,
\* and nothing else does while the panic unwinds.
Panic(p) ==
  /\ live /\ panic = <<>>
  /\ panic' = p
  /\ Calls("panic", p, <<>>)
  /\ UNCHANGED <<live, kind, Attrs, setLog>>
  /\ UNCHANGED hookVars

\* An End whose panic branch also flushes the accumulator.
EndCallsFlushOnPanic(r, out) ==
  IF r # <<>>
  THEN <<CallRecordError(Errorf(r), TRUE)>> \o ErrorCalls(Errorf(r), <<>>)
       \o ExtractCalls(out) \o <<CallEnd>>
  ELSE ExtractCalls(out) \o <<CallEnd>>

\* An End that ends the span before it flushes the accumulator.
EndCallsEndFirst(r, out) ==
  IF r # <<>>
  THEN <<CallRecordError(Errorf(r), TRUE)>> \o ErrorCalls(Errorf(r), <<>>)
       \o <<CallEnd>>
  ELSE <<CallEnd>> \o ExtractCalls(out)

\* An End whose panic branch leaves the closing of the span to the normal
\* path below it (the return is missing).
EndCallsNoReturn(r, out) ==
  IF r # <<>>
  THEN <<CallRecordError(Errorf(r), TRUE)>> \o ErrorCalls(Errorf(r), <<>>)
       \o <<CallEnd>> \o ExtractCalls(out) \o <<CallEnd>>
  ELSE ExtractCalls(out) \o <<CallEnd>>

\* Span.End, r being what recover() returns and out what Parse returns.
EndCalls(r, out) ==
  IF r # <<>>
  THEN <<CallRecordError(Errorf(r), TRUE)>> \o ErrorCalls(Errorf(r), <<>>)
       \o <<CallEnd>>
  ELSE ExtractCalls(out) \o <<CallEnd>>

\* recover() returns the panic value and stops the panic.
End ==
  /\ live
  /\ \E out \in Parse(Attrs) : Calls("End", panic, EndCalls(panic, out))
  /\ panic' = <<>>
  /\ UNCHANGED <<live, kind, Attrs, setLog>>
  /\ UNCHANGED hookVars

\* ------------------------------------------------------- specifications
InitHooks ==
  /\ cfg = EmptyCfg
  /\ done = 0
  /\ mu = 0
  /\ pc = [g \in Callers |-> "idle"]
  /\ call = [g \in Callers |-> <<>>]
  /\ ran = {}
  /\ callLog = <<>>

\* No span yet.
InitSpan ==
  /\ live = FALSE
  /\ kind = NoKind
  /\ Attrs = EmptyAttrs
  /\ sdkAttrs = <<>>
  /\ statusCode = CodeUnset
  /\ statusDesc = ""
  /\ recorded = <<>>
  /\ endCount = 0
  /\ panic = <<>>
  /\ lastOp = "none"
  /\ prevOp = "none"
  /\ lastArg = <<>>
  /\ lastCalls = <<>>
  /\ setLog = <<>>
  /\ nops = 0

\* The state after New(ctx, name) with no options.
InitSpanLive ==
  /\ live = TRUE
  /\ kind = SpanKindInternal
  /\ Attrs = EmptyAttrs
  /\ sdkAttrs = <<>>
  /\ statusCode = CodeUnset
  /\ statusDesc = ""
  /\ recorded = <<>>
  /\ endCount = 0
  /\ panic = <<>>
  /\ lastOp = "New"
  /\ prevOp = "none"
  /\ lastArg = <<>>
  /\ lastCalls = <<>>
  /\ setLog = <<>>
  /\ nops = 0

Init == InitHooks /\ InitSpan

\* One span from New to End and beyond.
Next ==
  \/ /\ nops < MaxOps
     /\ \/ \E a \in {<<>>} \cup {<<[Kind |-> k]>> : k \in KindStrings} : New(a)
        \/ \E k \in Keys, v \in StrVals : StrKV(k, v)
        \/ \E k \in Keys, v \in IntVals : IntKV(k, v)
        \/ Extract
        \/ \E m \in {<<>>, <<"fine">>} : OK(m)
        \/ \E m \in Msgs : SError(m)
        \/ \E e \in Errs \cup {NilErr}, f \in {<<>>, <<FALSE>>, <<TRUE>>} :
             Error(e, f)
        \/ \E p \in Payloads : Panic(p)
  \/ /\ nops < MaxOps \/ panic # <<>>
     /\ End

Spec == Init /\ [][Next]_vars

\* The accumulator of one span: the typed setters and Extract.
InitAttrs == InitHooks /\ InitSpanLive

NextAttrs ==
  /\ nops < MaxAttrOps
  /\ \/ \E k \in Keys, v \in StrVals : StrKV(k, v)
     \/ \E k \in Keys, v \in BoolVals : BoolKV(k, v)
     \/ \E k \in Keys, v \in IntVals : IntKV(k, v)
     \/ \E k \in Keys, v \in FloatVals : FloatKV(k, v)
     \/ \E k \in Keys, v \in SliceVals : SliceKV(k, v)
     \/ Extract

SpecAttrs == InitAttrs /\ [][NextAttrs]_vars

\* The accumulator alone: sequences of typed setter calls.
NextSetters ==
  /\ Len(setLog) < MaxSets
  /\ \/ \E k \in Keys, v \in StrVals : StrKV(k, v)
     \/ \E k \in Keys, v \in BoolVals : BoolKV(k, v)
     \/ \E k \in Keys, v \in IntVals : IntKV(k, v)
     \/ \E k \in Keys, v \in FloatVals : FloatKV(k, v)
     \/ \E k \in Keys, v \in SliceVals : SliceKV(k, v)

SpecSetters == InitAttrs /\ [][NextSetters]_vars

\* The hook registry, its setters called one after the other.
NextHooks ==
  /\ Len(callLog) < MaxCalls
  /\ \/ \E fn \in FnArgs : SetErrorFunc(fn)
     \/ \E fn \in FnArgs : SetPanicFunc(fn)

SpecHooks == Init /\ [][NextHooks]_vars

\* The hook registry, its setters called by concurrent goroutines as the
\* first calls of the process.
NextOnce ==
  \E g \in Callers :
    \/ \E setter \in {"SetErrorFunc", "SetPanicFunc"}, fn \in FnArgs :
         Enter(g, setter, fn)
    \/ FastCheck(g)
    \/ Lock(g)
    \/ SlowCheck(g)
    \/ RunClosure(g)
    \/ StoreDone(g)
    \/ Unlock(g)

SpecOnce == Init /\ [][NextOnce]_vars

\* ----------------------------------------------------------------- claims
\* The methods called on the underlying span by the last operation.
LastMethods == [i \in 1..Len(lastCalls) |-> lastCalls[i][1]]
CountOf(method) == Cardinality({i \in 1..Len(lastCalls) : lastCalls[i][1] = method})

\* C1: in any sequence of SetErrorFunc / SetPanicFunc calls only the first
\* call assigns its hook: the registry holds the first call's value in the
\* first call's hook and nil in the other one, however many calls follow,
\* so at most one of the two hooks is ever set.
C1_FirstCallOnly ==
  /\ callLog = <<>> => cfg = EmptyCfg
  /\ callLog # <<>> =>
       /\ callLog[1][1] = "SetErrorFunc" =>
            cfg = [errorFunc |-> callLog[1][2], panicFunc |-> NilFn]
       /\ callLog[1][1] = "SetPanicFunc" =>
            cfg = [errorFunc |-> NilFn, panicFunc |-> callLog[1][2]]
  /\ cfg.errorFunc = NilFn \/ cfg.panicFunc = NilFn

\* SetErrorFunc(f1), then SetPanicFunc(f2) and a second SetErrorFunc.
C1_Witness ==
  /\ callLog = <<<<"SetErrorFunc", "f1">>, <<"SetPanicFunc", "f2">>,
                 <<"SetErrorFunc", "f2">>>>
  /\ cfg = [errorFunc |-> "f1", panicFunc |-> NilFn]

\* C2: when goroutines race on the setters, at most one closure is ever
\* executed, and a caller that has returned finds the gate closed and the
\* registry holding exactly the winner's assignment.
C2_OnceRace ==
  /\ Cardinality(ran) <= 1
  /\ \A g \in Callers :
       pc[g] = "ret" =>
         /\ done = 1
         /\ \E w \in ran :
              cfg = IF call[w][1] = "SetErrorFunc"
                    THEN [errorFunc |-> call[w][2], panicFunc |-> NilFn]
                    ELSE [errorFunc |-> NilFn, panicFunc |-> call[w][2]]

\* All callers have returned, two of them went through the mutex, and the
\* loser had asked for a different assignment.
C2_Witness ==
  /\ \A g \in Callers : pc[g] = "ret"
  /\ ran = {2}
  /\ call[1] = <<"SetErrorFunc", "f1">>
  /\ call[2] = <<"SetPanicFunc", "f2">>
  /\ cfg = [errorFunc |-> NilFn, panicFunc |-> "f2"]

\* The text of the error End builds from a panic value.
C3_Text(r) ==
  CASE r[1] = "string" -> "recovered from panic: boom"
    [] r[1] = "int" -> "recovered from panic: 42"
    [] r[1] = "error" -> "recovered from panic: e1"

\* C3: a deferred End that runs while a panic unwinds records the error
\* built from the panic value with a stack trace, sets the status to Error
\* with that error's text, ends the underlying span exactly once and leaves
\* no panic in flight.
C3_PanicEnd ==
  (lastOp = "End" /\ lastArg # <<>>) =>
    /\ statusCode = CodeError
    /\ statusDesc = C3_Text(lastArg)
    /\ Len(recorded) > 0
    /\ recorded[Len(recorded)] = [msg |-> C3_Text(lastArg), stack |-> TRUE]
    /\ CountOf("RecordError") = 1
    /\ CountOf("End") = 1
    /\ lastCalls[Len(lastCalls)][1] = "End"
    /\ panic = <<>>

\* panic(42) caught by the deferred End.
C3_Witness ==
  /\ lastOp = "End"
  /\ lastArg # <<>>
  /\ lastArg[1] = "int"
  /\ prevOp = "panic"
  /\ statusCode = CodeError
  /\ statusDesc = "recovered from panic: 42"
  /\ endCount = 1
  /\ panic = <<>>

\* The attributes held by the accumulator, as typed key/value pairs.
Accumulated ==
  UNION {{<<"STRING", k, Attrs.Str[k]>> : k \in DOMAIN Attrs.Str},
         {<<"BOOL", k, Attrs.Bool[k]>> : k \in DOMAIN Attrs.Bool},
         {<<"INT64", k, Attrs.Int[k]>> : k \in DOMAIN Attrs.Int},
         {<<"FLOAT64", k, Attrs.Float[k]>> : k \in DOMAIN Attrs.Float},
         {<<"STRINGSLICE", k, Attrs.Slice[k]>> : k \in DOMAIN Attrs.Slice}}

\* C4: an End with no panic in flight makes exactly two calls on the
\* underlying span: SetAttributes with every accumulated attribute, then
\* End; it never calls SetStatus.
C4_NormalEnd ==
  (lastOp = "End" /\ lastArg = <<>>) =>
    /\ LastMethods = <<"SetAttributes", "End">>
    /\ {lastCalls[1][2][i] : i \in 1..Len(lastCalls[1][2])} = Accumulated
    /\ Len(lastCalls[1][2]) = Cardinality(Accumulated)
    /\ \A e \in Accumulated : e[2] \in DOMAIN sdkAttrs
    /\ endCount >= 1

\* New with kind "server", StrKV("route", "/x"), IntKV("status", 200), End.
C4_Witness ==
  /\ lastOp = "End"
  /\ lastArg = <<>>
  /\ kind = SpanKindServer
  /\ setLog = <<<<"StrKV", "route", "/x">>, <<"IntKV", "status", 200>>>>
  /\ DOMAIN sdkAttrs = {"route", "status"}
  /\ sdkAttrs["route"] = <<"STRING", "/x">>
  /\ sdkAttrs["status"] = <<"INT64", 200>>
  /\ statusCode = CodeUnset
  /\ endCount = 1

\* The attribute type each typed setter writes.
C5_Type(setter) ==
  CASE setter = "StrKV" -> "STRING"
    [] setter = "BoolKV" -> "BOOL"
    [] setter = "IntKV" -> "INT64"
    [] setter = "FloatKV" -> "FLOAT64"
    [] setter = "SliceKV" -> "STRINGSLICE"

\* The last call of each (setter, key) pair in the log.
C5_LastCalls ==
  {i \in 1..Len(setLog) :
     \A j \in (i + 1)..Len(setLog) :
       ~(setLog[j][1] = setLog[i][1] /\ setLog[j][2] = setLog[i][2])}

\* C5: whatever slice Parse returns, it holds exactly one entry per
\* (kind, key) pair set so far, with the value of the last call of that
\* kind's setter for that key.
C5_ParseLastWins ==
  \A out \in Parse(Attrs) :
    /\ {out[i] : i \in 1..Len(out)} =
         {<<C5_Type(setLog[i][1]), setLog[i][2], setLog[i][3]>> :
            i \in C5_LastCalls}
    /\ Len(out) = Cardinality(C5_LastCalls)

\* "route" set twice as a string and once as an int: two entries.
C5_Witness ==
  /\ setLog = <<<<"StrKV", "route", "/x">>, <<"StrKV", "route", "/y">>,
                <<"IntKV", "route", 200>>>>
  /\ \E out \in Parse(Attrs) :
       out = <<<<"STRING", "route", "/y">>, <<"INT64", "route", 200>>>>

\* C6: Extract never changes the accumulator, and an Extract that follows
\* an Extract leaves the attributes of the underlying span as they were.
C6_ExtractIdempotent ==
  /\ [][(lastOp' = "Extract" /\ nops' # nops) => Attrs' = Attrs]_vars
  /\ [][(lastOp = "Extract" /\ lastOp' = "Extract" /\ nops' # nops)
           => sdkAttrs' = sdkAttrs]_vars

\* Two Extracts in a row with "route" held both as a string and as an int.
C6_Witness ==
  /\ lastOp = "Extract"
  /\ prevOp = "Extract"
  /\ "route" \in DOMAIN Attrs.Str
  /\ "route" \in DOMAIN Attrs.Int
  /\ sdkAttrs["route"] = <<"INT64", Attrs.Int["route"]>>

\* C7: New starts the span with the kind named by the first option's Kind
\* among the five known names, and with kind internal for any other string
\* and when no option is passed.
C7_NewKind ==
  lastOp = "New" =>
    IF Len(lastArg) = 0 THEN kind = SpanKindInternal
    ELSE LET k == lastArg[1].Kind IN
      /\ k = "internal" => kind = SpanKindInternal
      /\ k = "server" => kind = SpanKindServer
      /\ k = "client" => kind = SpanKindClient
      /\ k = "producer" => kind = SpanKindProducer
      /\ k = "consumer" => kind = SpanKindConsumer
      /\ k \notin {"internal", "server", "client", "producer", "consumer"}
           => kind = SpanKindInternal

\* New with the unknown kind "Server".
C7_Witness ==
  /\ lastOp = "New"
  /\ Len(lastArg) = 1
  /\ lastArg[1].Kind = "Server"
  /\ kind = SpanKindInternal

\* C8: Error with a nil error leaves the underlying span as it was; with a
\* non-nil error it sets the status to Error with the error's text and
\* records the error iff the flag is passed and true.
C8_Error ==
  /\ [][(lastOp' = "Error" /\ nops' # nops /\ lastArg'[1] = NilErr) =>
          /\ lastCalls' = <<>>
          /\ UNCHANGED <<sdkAttrs, statusCode, statusDesc, recorded,
                         endCount>>]_vars
  /\ [][(lastOp' = "Error" /\ nops' # nops /\ lastArg'[1] # NilErr) =>
          /\ statusCode' = CodeError
          /\ statusDesc' = lastArg'[1][1]
          /\ sdkAttrs' = sdkAttrs
          /\ endCount' = endCount
          /\ IF lastArg'[2] = <<TRUE>>
             THEN recorded' = Append(recorded,
                                     [msg |-> lastArg'[1][1], stack |-> FALSE])
             ELSE recorded' = recorded]_vars

\* Error(e1, false) on a span whose status was Ok: status set, no record.
C8_Witness ==
  /\ lastOp = "Error"
  /\ prevOp = "OK"
  /\ lastArg = <<<<"e1">>, <<FALSE>>>>
  /\ statusCode = CodeError
  /\ statusDesc = "e1"
  /\ recorded = <<>>

\* C9: SError("") leaves status and description as they were, whatever
\* they were; SError(msg) with a non-empty msg sets status Error, msg.
C9_SError ==
  /\ [][(lastOp' = "SError" /\ nops' # nops /\ lastArg' = "") =>
          /\ lastCalls' = <<>>
          /\ UNCHANGED <<statusCode, statusDesc>>]_vars
  /\ [][(lastOp' = "SError" /\ nops' # nops /\ lastArg' # "") =>
          /\ statusCode' = CodeError
          /\ statusDesc' = lastArg']_vars

\* SError("") on a span whose status is Ok, "fine".
C9_Witness ==
  /\ lastOp = "SError"
  /\ lastArg = ""
  /\ prevOp = "OK"
  /\ statusCode = CodeOk
  /\ statusDesc = "fine"

\* C10: End calls SetAttributes iff no panic was recovered; on the panic
\* path the attributes of the underlying span stay as they were.
C10_NoFlushOnPanic ==
  /\ [](lastOp = "End" => (CountOf("SetAttributes") = 1 <=> lastArg = <<>>))
  /\ [](lastOp = "End" => (CountOf("SetAttributes") = 0 <=> lastArg # <<>>))
  /\ [][(lastOp' = "End" /\ panic # <<>>) => sdkAttrs' = sdkAttrs]_vars

\* A panic caught by End with an attribute accumulated and never applied.
C10_Witness ==
  /\ lastOp = "End"
  /\ lastArg # <<>>
  /\ DOMAIN Attrs.Str # {}
  /\ DOMAIN sdkAttrs = {}
  /\ endCount = 1
====
